---- MODULE Spec2Model ----
(***************************************************************************)
(* A3C agent (chainerrl/agents/a3c.py): trajectory window, return and      *)
(* advantage recurrence, loss assembly and the lock-free gradient          *)
(* synchronisation between a worker-local model and the shared model.      *)
(*                                                                         *)
(* Numbers are exact rationals <<n, d>> (d > 0, lowest terms).  A chainer  *)
(* Variable is a pair [data, grad]: its value and its derivative with      *)
(* respect to the model's single scalar parameter, so that backward() is   *)
(* "add the derivative of the loss to the gradient storage".               *)
(***************************************************************************)
EXTENDS Integers, Sequences, FiniteSets, TLC

\* ------------------------------------------------------------------ bounds
\* act_and_train is not called once t has reached MaxT
MaxT == 2

\* ------------------------------------------------------- exact arithmetic
Abs(x) == IF x < 0 THEN -x ELSE x

RECURSIVE GCD(_, _)
GCD(a, b) == IF b = 0 THEN a ELSE GCD(b, a % b)

Norm(n, d) ==
    LET g == GCD(Abs(n), d)
    IN  IF n = 0 THEN <<0, 1>> ELSE <<n \div g, d \div g>>

Q(n, d) == Norm(n, d)
I(n) == <<n, 1>>
Zero == I(0)
One == I(1)
RAdd(a, b) == Norm(a[1] * b[2] + b[1] * a[2], a[2] * b[2])
RNeg(a) == <<-a[1], a[2]>>
RSub(a, b) == RAdd(a, RNeg(b))
RMul(a, b) == Norm(a[1] * b[1], a[2] * b[2])
RLt(a, b) == a[1] * b[2] < b[1] * a[2]
RSign(a) == IF a[1] > 0 THEN 1 ELSE IF a[1] < 0 THEN -1 ELSE 0

RECURSIVE RPow(_, _)
RPow(a, k) == IF k = 0 THEN One ELSE RMul(a, RPow(a, k - 1))

\* chainer.Variable restricted to what update() uses of it
Var(d, g) == [data |-> d, grad |-> g]
VZero == Var(Zero, Zero)
VAdd(x, y) == Var(RAdd(x.data, y.data), RAdd(x.grad, y.grad))
VSub(x, y) == Var(RSub(x.data, y.data), RSub(x.grad, y.grad))
VScale(x, c) == Var(RMul(x.data, c), RMul(x.grad, c))
\* (v - R) ** 2 / 2 for a Variable v and a float R
VHalfSqErr(v, R) ==
    Var(RMul(RMul(RSub(v.data, R), RSub(v.data, R)), Q(1, 2)),
        RMul(RSub(v.data, R), v.grad))

\* ---------------------------------------------------------------- inputs
Observations == {1, 2}
Rewards == {I(-5), Q(1, 2), I(5)}
\* the process_idx values agents are constructed with
ProcessIdx == {0, 1}
\* np.expand_dims(phi(state), 0): a batch of one observation; None is <<>>
None == <<>>
Batch(state) == <<state>>

\* -------------------------------------------------- python dictionaries
EmptyDict == [k \in {} |-> Zero]
Put(d, k, v) == [x \in (DOMAIN d) \cup {k} |-> IF x = k THEN v ELSE d[x]]

\* ------------------------------------------------------------ parameters
\* A3C.__init__ arguments that every configuration below shares
gamma == Q(1, 2)
beta == Q(1, 2)
average_reward_tau == Q(1, 2)

\* the configurations the agents are constructed with
Config(h, clip, keep, normalize, use_avg, pi_coef, v_coef, rec) ==
    [t_max |-> h, clip_reward |-> clip, keep_loss_scale_same |-> keep,
     normalize_grad_by_t_max |-> normalize, use_average_reward |-> use_avg,
     pi_loss_coef |-> pi_coef, v_loss_coef |-> v_coef, recurrent |-> rec]

Configs ==
    { Config(1, TRUE,  FALSE, FALSE, FALSE, I(1), Q(1, 2), TRUE),
      Config(2, FALSE, TRUE,  FALSE, FALSE, I(2), I(1),    FALSE),
      Config(2, TRUE,  FALSE, TRUE,  TRUE,  I(1), Q(1, 2), FALSE) }

\* ------------------------------------------------- the external model
\* A synthetic model with one scalar parameter theta and, when it is
\* Recurrent, a hidden state h (0 after reset_state, 1 or 2 after an
\* evaluation).  Its outputs are polynomial in theta, so gradients are exact.
Theta0 == 1

NextHidden(h) == IF h = 2 THEN 1 ELSE h + 1

\* vout of model.pi_and_v(statevar)
VOut(theta, h, statevar) == Var(I(theta * statevar[1] + h), I(statevar[1]))
\* pout.log_prob(action) and pout.entropy of model.pi_and_v(statevar)
LogProb(theta, statevar, action) == Var(I(theta * action - 2), I(action))
Entropy(theta, statevar) == Var(I(statevar[1] + 2), One)
\* pout.sample() and pout.most_probable: the policy is deterministic
Sample(statevar) == statevar[1] - 1
\* the model's hidden state after one evaluation
Evaluated(recurrent, h) == IF recurrent THEN NextHidden(h) ELSE h
\* model.reset_state()
ResetState(h) == 0

\* optimizer.update(): sign descent with step 1 on the shared parameter
OptimizerStep(param, grad) == param - RSign(grad)
\* link.zerograds()
Zerograds(grad) == Zero
\* copy_param.copy_grad(target_link, source_link)
CopyGradInto(target_grad, source_grad) == RAdd(target_grad, source_grad)
\* copy_param.copy_param(target_link, source_link)
CopyParamInto(target_param, source_param) == source_param
\* serializers.save_npz: the file written for a parameter value
SaveNpz(param) == <<param>>
\* serializers.load_npz: the parameter value read back from a file
LoadNpz(file) == file[1]
\* total_loss.backward(): accumulates into the parameter's gradient storage
Backward(grad, loss) == RAdd(grad, loss.grad)

\* ------------------------------------------------------------------ state
VARIABLES
    workers,              \* process_idx of the agents sharing one model
    conf,                 \* the configuration the agents were built with
    shared_param,         \* self.shared_model: parameter value
    shared_grad,          \* self.shared_model: gradient storage (what it
                          \* holds before the first zerograds() is never read)
    model_param,          \* self.model: parameter value
    model_grad,           \* self.model: gradient storage
    model_state,          \* self.model: recurrent hidden state
    t, t_start,
    past_action_log_prob, past_action_entropy, past_states,
    past_rewards, past_values,
    average_reward,
    pc,                   \* where each agent is in its current call
    frame,                \* the arguments of the public call in progress
    loc,                  \* the local variables of the last update() call
    exc,                  \* the exception the last public call raised
    n_updates,            \* number of update() calls that ran to the end
    disk,                 \* the files of the directory save() and load() use
    misreads              \* history: the optimizer steps that consumed a
                          \* gradient other than the calling agent's own
                          \* (agent w, its k-th update, the two gradients)

sharedVars == <<workers, conf, shared_param, shared_grad, disk, misreads>>
modelVars == <<model_param, model_grad, model_state>>
counterVars == <<t, t_start>>
bufferVars == <<past_action_log_prob, past_action_entropy, past_states,
                past_rewards, past_values>>
callVars == <<pc, frame, loc, exc, n_updates>>
vars == <<sharedVars, modelVars, counterVars, bufferVars, average_reward,
          callVars>>

t_max == conf.t_max
clip_reward == conf.clip_reward
keep_loss_scale_same == conf.keep_loss_scale_same
normalize_grad_by_t_max == conf.normalize_grad_by_t_max
use_average_reward == conf.use_average_reward
pi_loss_coef == conf.pi_loss_coef
v_loss_coef == conf.v_loss_coef
\* isinstance(self.model, Recurrent)
recurrent == conf.recurrent

NoFrame ==
    [op |-> "none", state |-> 0, reward |-> Zero, done |-> FALSE,
     statevar |-> None]
\* a directory save() has not written to
NoFiles == [model |-> <<>>, optimizer |-> FALSE]
NoLoc ==
    [t_start |-> 0, t |-> 0, bootstrap |-> None, R0 |-> Zero,
     baseline0 |-> Zero, order |-> <<>>,
     R |-> EmptyDict, advantage |-> EmptyDict, baseline |-> EmptyDict,
     pi_loss_acc |-> VZero, v_loss_acc |-> VZero,
     pi_loss_scaled |-> VZero, v_loss_scaled |-> VZero,
     pi_loss_keep |-> VZero, v_loss_keep |-> VZero,
     pi_loss |-> VZero, v_loss |-> VZero, total_loss |-> VZero,
     average_reward |-> Zero, error |-> "none"]

\* A3C.__init__
InitAgents(ws) ==
    /\ workers = ws
    /\ conf \in Configs
    /\ shared_param = Theta0
    /\ shared_grad = Zero
    /\ model_param = [w \in ws |-> Theta0]
    /\ model_grad = [w \in ws |-> Zero]
    /\ model_state = [w \in ws |-> 0]
    /\ t = [w \in ws |-> 0]
    /\ t_start = [w \in ws |-> 0]
    /\ past_action_log_prob = [w \in ws |-> EmptyDict]
    /\ past_action_entropy = [w \in ws |-> EmptyDict]
    /\ past_states = [w \in ws |-> EmptyDict]
    /\ past_rewards = [w \in ws |-> EmptyDict]
    /\ past_values = [w \in ws |-> EmptyDict]
    /\ average_reward = [w \in ws |-> Zero]
    /\ pc = [w \in ws |-> "idle"]
    /\ frame = [w \in ws |-> NoFrame]
    /\ loc = [w \in ws |-> NoLoc]
    /\ exc = [w \in ws |-> "none"]
    /\ n_updates = [w \in ws |-> 0]
    /\ disk = NoFiles
    /\ misreads = {}

Init == InitAgents({0})

\* ------------------------------------------------------------- update()
\* Clip bounding the reward from above only
Clip_UpperOnly(reward) == IF RLt(One, reward) THEN One ELSE reward

\* np.clip(reward, -1, 1)
Clip(reward) ==
    IF RLt(reward, I(-1)) THEN I(-1)
    ELSE IF RLt(I(1), reward) THEN I(1) ELSE reward

\* the reward as act_and_train and stop_episode_and_train store it
ClippedReward(reward) == IF clip_reward THEN Clip(reward) ELSE reward

\* ReversedRange walking the window forwards
ReversedRange_Ascending(a, b) == [k \in 1..(b - a) |-> a + k - 1]

\* reversed(range(t_start, t)) as the sequence of indices it yields
ReversedRange(a, b) == [k \in 1..(b - a) |-> b - k]

\* the state of the loop over the window: the locals R, pi_loss, v_loss,
\* self.average_reward, and what the loop computed at each index
WalkStart(R0, baseline) ==
    [R |-> R0, average_reward |-> baseline, pi_loss |-> VZero,
     v_loss |-> VZero, order |-> <<>>, Rs |-> EmptyDict,
     advantage |-> EmptyDict, baseline |-> EmptyDict, error |-> "none"]

\* StepReturn with the reward added before the discount is applied
StepReturn_DiscountAfterReward(R, reward, baseline, use_avg) ==
    LET R1 == RMul(RAdd(R, reward), gamma)
    IN  IF use_avg THEN RSub(R1, baseline) ELSE R1

\* the return after "R *= gamma; R += past_rewards[i]; R -= average_reward"
StepReturn(R, reward, baseline, use_avg) ==
    LET R1 == RAdd(RMul(R, gamma), reward)
    IN  IF use_avg THEN RSub(R1, baseline) ELSE R1

\* self.average_reward after the step with this advantage
StepBaseline(baseline, advantage, use_avg) ==
    IF use_avg THEN RAdd(baseline, RMul(average_reward_tau, advantage))
    ELSE baseline

\* one iteration of the loop body for index i
WalkStep(acc, i, rewards, values, log_probs, entropies, use_avg) ==
    IF i \notin DOMAIN rewards \/ i \notin DOMAIN values
    THEN [acc EXCEPT !.error = "KeyError"]
    ELSE
    LET R == StepReturn(acc.R, rewards[i], acc.average_reward, use_avg)
        v == values[i]
        advantage == RSub(R, v.data)
        avg == StepBaseline(acc.average_reward, advantage, use_avg)
    IN  IF i \notin DOMAIN log_probs \/ i \notin DOMAIN entropies
        THEN [acc EXCEPT !.error = "KeyError", !.average_reward = avg]
        ELSE [acc EXCEPT
                !.R = R,
                !.average_reward = avg,
                !.pi_loss = VSub(VSub(@, VScale(log_probs[i], advantage)),
                                 VScale(entropies[i], beta)),
                !.v_loss = VAdd(@, VHalfSqErr(v, R)),
                !.order = Append(@, i),
                !.Rs = Put(@, i, R),
                !.advantage = Put(@, i, advantage),
                !.baseline = Put(@, i, acc.average_reward)]

RECURSIVE Walk(_, _, _, _, _, _, _)
Walk(acc, indices, rewards, values, log_probs, entropies, use_avg) ==
    IF indices = <<>> \/ acc.error # "none" THEN acc
    ELSE Walk(WalkStep(acc, Head(indices), rewards, values, log_probs,
                       entropies, use_avg),
              Tail(indices), rewards, values, log_probs, entropies, use_avg)

\* "if self.pi_loss_coef != 1.0: pi_loss *= self.pi_loss_coef", and the
\* same for v_loss
CoefScaled(loss, coef) == IF coef # One THEN VScale(loss, coef) ELSE loss

\* KeepScaled with the factor upside down
KeepScaled_Inverse(loss, keep, n, horizon) ==
    IF keep /\ n < horizon THEN VScale(loss, Q(n, horizon)) ELSE loss

\* "if self.keep_loss_scale_same and self.t - self.t_start < self.t_max"
KeepScaled(loss, keep, n, horizon) ==
    IF keep /\ n < horizon THEN VScale(loss, Q(horizon, n)) ELSE loss

\* "if self.normalize_grad_by_t_max: pi_loss /= self.t - self.t_start"
Normalized(loss, normalize, n) ==
    IF normalize THEN VScale(loss, Q(1, n)) ELSE loss

\* the bootstrap: R = 0 for None, else float(vout.data) under state_kept
Bootstrap(statevar, theta, h) ==
    IF statevar = None THEN Zero ELSE VOut(theta, h, statevar).data

\* lines 139-193 for agent w: the locals of update() once total_loss is built
UpdateLocals(w, statevar) ==
    LET n == t[w] - t_start[w]
        R0 == Bootstrap(statevar, model_param[w], model_state[w])
        walk == Walk(WalkStart(R0, average_reward[w]),
                     ReversedRange(t_start[w], t[w]),
                     past_rewards[w], past_values[w],
                     past_action_log_prob[w], past_action_entropy[w],
                     use_average_reward)
        pi1 == CoefScaled(walk.pi_loss, pi_loss_coef)
        v1 == CoefScaled(walk.v_loss, v_loss_coef)
        pi2 == KeepScaled(pi1, keep_loss_scale_same, n, t_max)
        v2 == KeepScaled(v1, keep_loss_scale_same, n, t_max)
        pi3 == Normalized(pi2, normalize_grad_by_t_max, n)
        v3 == Normalized(v2, normalize_grad_by_t_max, n)
    IN  [t_start |-> t_start[w], t |-> t[w], bootstrap |-> statevar,
         R0 |-> R0, baseline0 |-> average_reward[w], order |-> walk.order,
         R |-> walk.Rs, advantage |-> walk.advantage,
         baseline |-> walk.baseline,
         pi_loss_acc |-> walk.pi_loss, v_loss_acc |-> walk.v_loss,
         pi_loss_scaled |-> pi1, v_loss_scaled |-> v1,
         pi_loss_keep |-> pi2, v_loss_keep |-> v2,
         pi_loss |-> pi3, v_loss |-> v3, total_loss |-> VAdd(pi3, v3),
         average_reward |-> walk.average_reward, error |-> walk.error]

\* ------------------------------------------------------- public calls
Set(f, w, v) == [f EXCEPT ![w] = v]

\* HorizonReached triggering one step early
HorizonReached_OneEarly(w) == t[w] - t_start[w] + 1 = t_max

\* HorizonReached never triggering: the horizon test left out
HorizonReached_Never(w) == FALSE

\* HorizonReached triggering one step late
HorizonReached_OneLate(w) == t[w] - t_start[w] = t_max + 1

\* "if self.t - self.t_start == self.t_max"
HorizonReached(w) == t[w] - t_start[w] = t_max

\* BootstrapArg bootstrapping from the observation even when done
BootstrapArg_IgnoreDone(state, done) == Batch(state)

\* the argument stop_episode_and_train gives update()
BootstrapArg(state, done) == IF done THEN None ELSE Batch(state)

\* act_and_train, lines 224-232: store the reward of the previous step and
\* decide whether update(statevar) runs before the new entry is recorded
ActAndTrainBegin(w, state, reward) ==
    /\ w \in workers
    /\ pc[w] = "idle"
    /\ t[w] < MaxT
    /\ past_rewards' = Set(past_rewards, w,
                           Put(past_rewards[w], t[w] - 1, ClippedReward(reward)))
    /\ frame' = Set(frame, w, [op |-> "act_and_train", state |-> state,
                               reward |-> reward, done |-> FALSE,
                               statevar |-> Batch(state)])
    /\ pc' = Set(pc, w, IF HorizonReached(w) THEN "update" ELSE "record")
    /\ exc' = Set(exc, w, "none")
    /\ UNCHANGED <<sharedVars, modelVars, counterVars, past_action_log_prob,
                   past_action_entropy, past_states, past_values,
                   average_reward, loc, n_updates>>

\* act_and_train, lines 234-246: evaluate the model, sample an action,
\* record the entry of step t and advance t
ActAndTrainRecord(w) ==
    /\ w \in workers
    /\ \/ pc[w] = "record"
       \/ pc[w] = "updated" /\ frame[w].op = "act_and_train"
    /\ LET statevar == frame[w].statevar
           theta == model_param[w]
           action == Sample(statevar)
       IN  /\ past_states' = Set(past_states, w,
                                 Put(past_states[w], t[w], I(statevar[1])))
           /\ past_action_log_prob' =
                  Set(past_action_log_prob, w,
                      Put(past_action_log_prob[w], t[w],
                          LogProb(theta, statevar, action)))
           /\ past_action_entropy' =
                  Set(past_action_entropy, w,
                      Put(past_action_entropy[w], t[w],
                          Entropy(theta, statevar)))
           /\ past_values' =
                  Set(past_values, w,
                      Put(past_values[w], t[w],
                          VOut(theta, model_state[w], statevar)))
    /\ model_state' = Set(model_state, w, Evaluated(recurrent, model_state[w]))
    /\ t' = Set(t, w, t[w] + 1)
    /\ pc' = Set(pc, w, "idle")
    /\ frame' = Set(frame, w, NoFrame)
    /\ UNCHANGED <<sharedVars, model_param, model_grad, t_start, past_rewards,
                   average_reward, loc, exc, n_updates>>

\* act, lines 248-255: one evaluation of the model, nothing recorded
Act(w, obs) ==
    /\ w \in workers
    /\ pc[w] = "idle"
    /\ model_state' = Set(model_state, w, Evaluated(recurrent, model_state[w]))
    /\ exc' = Set(exc, w, "none")
    /\ UNCHANGED <<sharedVars, model_param, model_grad, counterVars,
                   bufferVars, average_reward, pc, frame, loc, n_updates>>

\* StopEpisodeAndTrainBegin calling update() without storing the reward
StopEpisodeAndTrainBegin_NoReward(w, state, reward, done) ==
    /\ w \in workers
    /\ pc[w] = "idle"
    /\ frame' = Set(frame, w, [op |-> "stop_episode_and_train",
                               state |-> state, reward |-> reward,
                               done |-> done,
                               statevar |-> BootstrapArg(state, done)])
    /\ pc' = Set(pc, w, "update")
    /\ exc' = Set(exc, w, "none")
    /\ UNCHANGED <<sharedVars, modelVars, counterVars, bufferVars,
                   average_reward, loc, n_updates>>

\* stop_episode_and_train, lines 258-266: store the final reward and call
\* update(None) when done, update(statevar) otherwise
StopEpisodeAndTrainBegin(w, state, reward, done) ==
    /\ w \in workers
    /\ pc[w] = "idle"
    /\ past_rewards' = Set(past_rewards, w,
                           Put(past_rewards[w], t[w] - 1, ClippedReward(reward)))
    /\ frame' = Set(frame, w, [op |-> "stop_episode_and_train",
                               state |-> state, reward |-> reward,
                               done |-> done,
                               statevar |-> BootstrapArg(state, done)])
    /\ pc' = Set(pc, w, "update")
    /\ exc' = Set(exc, w, "none")
    /\ UNCHANGED <<sharedVars, modelVars, counterVars, past_action_log_prob,
                   past_action_entropy, past_states, past_values,
                   average_reward, loc, n_updates>>

\* stop_episode_and_train, lines 268-269, once update() has returned
StopEpisodeAndTrainEnd(w) ==
    /\ w \in workers
    /\ pc[w] = "updated" /\ frame[w].op = "stop_episode_and_train"
    /\ model_state' = Set(model_state, w,
                          IF recurrent THEN ResetState(model_state[w])
                          ELSE model_state[w])
    /\ pc' = Set(pc, w, "idle")
    /\ frame' = Set(frame, w, NoFrame)
    /\ UNCHANGED <<sharedVars, model_param, model_grad, counterVars,
                   bufferVars, average_reward, loc, exc, n_updates>>

\* StopEpisode closing the pending window as an update would
StopEpisode_DropsWindow(w) ==
    /\ w \in workers
    /\ pc[w] = "idle"
    /\ model_state' = Set(model_state, w,
                          IF recurrent THEN ResetState(model_state[w])
                          ELSE model_state[w])
    /\ t_start' = Set(t_start, w, t[w])
    /\ exc' = Set(exc, w, "none")
    /\ UNCHANGED <<sharedVars, model_param, model_grad, t,
                   bufferVars, average_reward, pc, frame, loc, n_updates>>

\* stop_episode, lines 271-273
StopEpisode(w) ==
    /\ w \in workers
    /\ pc[w] = "idle"
    /\ model_state' = Set(model_state, w,
                          IF recurrent THEN ResetState(model_state[w])
                          ELSE model_state[w])
    /\ exc' = Set(exc, w, "none")
    /\ UNCHANGED <<sharedVars, model_param, model_grad, counterVars,
                   bufferVars, average_reward, pc, frame, loc, n_updates>>

\* sync_parameters, lines 128-130, called by the harness
SyncParametersCall(w) ==
    /\ w \in workers
    /\ pc[w] = "idle"
    /\ model_param' = Set(model_param, w,
                          CopyParamInto(model_param[w], shared_param))
    /\ exc' = Set(exc, w, "none")
    /\ UNCHANGED <<sharedVars, model_grad, model_state, counterVars,
                   bufferVars, average_reward, pc, frame, loc, n_updates>>

\* save, lines 275-279: model.npz from self.model, optimizer.npz from the
\* optimizer
Save(w) ==
    /\ w \in workers
    /\ pc[w] = "idle"
    /\ disk' = [model |-> SaveNpz(model_param[w]), optimizer |-> TRUE]
    /\ exc' = Set(exc, w, "none")
    /\ UNCHANGED <<workers, conf, shared_param, shared_grad, misreads,
                   modelVars, counterVars, bufferVars, average_reward, pc,
                   frame, loc, n_updates>>

\* Load restoring the shared model only, self.model left as it was
Load_SharedOnly(w) ==
    /\ w \in workers
    /\ pc[w] = "idle"
    /\ IF disk.model = <<>>
       THEN /\ exc' = Set(exc, w, "IOError")
            /\ UNCHANGED shared_param
       ELSE /\ shared_param' = CopyParamInto(shared_param,
                                             LoadNpz(disk.model))
            /\ exc' = Set(exc, w, "none")
    /\ UNCHANGED <<workers, conf, shared_grad, disk, misreads, modelVars,
                   counterVars, bufferVars, average_reward, pc,
                   frame, loc, n_updates>>

\* load, lines 281-291: model.npz into self.model, then copy_param from
\* self.model into self.shared_model; a missing optimizer.npz is only
\* warned about, a missing model.npz makes load_npz raise
Load(w) ==
    /\ w \in workers
    /\ pc[w] = "idle"
    /\ IF disk.model = <<>>
       THEN /\ exc' = Set(exc, w, "IOError")
            /\ UNCHANGED <<model_param, shared_param>>
       ELSE /\ model_param' = Set(model_param, w, LoadNpz(disk.model))
            /\ shared_param' = CopyParamInto(shared_param,
                                             LoadNpz(disk.model))
            /\ exc' = Set(exc, w, "none")
    /\ UNCHANGED <<workers, conf, shared_grad, disk, misreads, model_grad,
                   model_state, counterVars, bufferVars, average_reward, pc,
                   frame, loc, n_updates>>

\* ------------------------------------------------- the steps of update()
\* lines 137-197: the assertion, the bootstrap, the walk over the window,
\* the loss, and the gradients of the worker's own model.  A failed
\* assertion or a missing key leaves the public call with an exception.
UpdateCompute(w) ==
    /\ w \in workers
    /\ pc[w] = "update"
    /\ IF ~(t_start[w] < t[w])
       THEN /\ exc' = Set(exc, w, "AssertionError")
            /\ pc' = Set(pc, w, "idle")
            /\ frame' = Set(frame, w, NoFrame)
            /\ UNCHANGED <<model_grad, average_reward, loc>>
       ELSE LET l == UpdateLocals(w, frame[w].statevar)
            IN  /\ average_reward' = Set(average_reward, w, l.average_reward)
                /\ loc' = Set(loc, w, l)
                /\ IF l.error # "none"
                   THEN /\ exc' = Set(exc, w, l.error)
                        /\ pc' = Set(pc, w, "idle")
                        /\ frame' = Set(frame, w, NoFrame)
                        /\ UNCHANGED model_grad
                   ELSE /\ model_grad' =
                              Set(model_grad, w,
                                  Backward(Zerograds(model_grad[w]), l.total_loss))
                        /\ pc' = Set(pc, w, "shared_zerograds")
                        /\ UNCHANGED <<exc, frame>>
    /\ UNCHANGED <<sharedVars, model_param, model_state, counterVars,
                   bufferVars, n_updates>>

\* SharedZerograds with the zeroing left out
SharedZerograds_Skipped(w) ==
    /\ w \in workers
    /\ pc[w] = "shared_zerograds"
    /\ pc' = Set(pc, w, "copy_grad")
    /\ UNCHANGED <<sharedVars, modelVars, counterVars, bufferVars,
                   average_reward, frame, loc, exc, n_updates>>

\* line 199: self.shared_model.zerograds()
SharedZerograds(w) ==
    /\ w \in workers
    /\ pc[w] = "shared_zerograds"
    /\ shared_grad' = Zerograds(shared_grad)
    /\ pc' = Set(pc, w, "copy_grad")
    /\ UNCHANGED <<workers, conf, shared_param, disk, misreads, modelVars, counterVars,
                   bufferVars, average_reward, frame, loc, exc, n_updates>>

\* CopyGrad adding the local gradients twice
CopyGrad_Twice(w) ==
    /\ w \in workers
    /\ pc[w] = "copy_grad"
    /\ shared_grad' = CopyGradInto(CopyGradInto(shared_grad, model_grad[w]),
                                   model_grad[w])
    /\ pc' = Set(pc, w, "optimizer")
    /\ UNCHANGED <<workers, conf, shared_param, disk, misreads, modelVars,
                   counterVars, bufferVars, average_reward, frame, loc, exc,
                   n_updates>>

\* lines 200-201: copy_grad(target_link=shared_model, source_link=model)
CopyGrad(w) ==
    /\ w \in workers
    /\ pc[w] = "copy_grad"
    /\ shared_grad' = CopyGradInto(shared_grad, model_grad[w])
    /\ pc' = Set(pc, w, "optimizer")
    /\ UNCHANGED <<workers, conf, shared_param, disk, misreads, modelVars, counterVars,
                   bufferVars, average_reward, frame, loc, exc, n_updates>>

\* lines 203-208: self.optimizer.update()
OptimizerUpdate(w) ==
    /\ w \in workers
    /\ pc[w] = "optimizer"
    /\ shared_param' = OptimizerStep(shared_param, shared_grad)
    /\ misreads' = IF shared_grad = model_grad[w] THEN misreads
                   ELSE misreads \cup {[w |-> w, k |-> n_updates[w],
                                        own |-> model_grad[w],
                                        read |-> shared_grad]}
    /\ pc' = Set(pc, w, "sync")
    /\ UNCHANGED <<workers, conf, shared_grad, disk, modelVars, counterVars,
                   bufferVars, average_reward, frame, loc, exc, n_updates>>

\* SyncParameters with the copy of the shared parameters left out
SyncParameters_Skipped(w) ==
    /\ w \in workers
    /\ pc[w] = "sync"
    /\ pc' = Set(pc, w, "clear")
    /\ UNCHANGED <<sharedVars, modelVars, counterVars,
                   bufferVars, average_reward, frame, loc, exc, n_updates>>

\* lines 210-212: self.sync_parameters(); unchain_backward() keeps the
\* numeric hidden state
SyncParameters(w) ==
    /\ w \in workers
    /\ pc[w] = "sync"
    /\ model_param' = Set(model_param, w,
                          CopyParamInto(model_param[w], shared_param))
    /\ pc' = Set(pc, w, "clear")
    /\ UNCHANGED <<sharedVars, model_grad, model_state, counterVars,
                   bufferVars, average_reward, frame, loc, exc, n_updates>>

\* ClearBuffers restarting the step counter with the window
ClearBuffers_ResetT(w) ==
    /\ w \in workers
    /\ pc[w] = "clear"
    /\ past_action_log_prob' = Set(past_action_log_prob, w, EmptyDict)
    /\ past_action_entropy' = Set(past_action_entropy, w, EmptyDict)
    /\ past_states' = Set(past_states, w, EmptyDict)
    /\ past_rewards' = Set(past_rewards, w, EmptyDict)
    /\ past_values' = Set(past_values, w, EmptyDict)
    /\ t' = Set(t, w, 0)
    /\ t_start' = Set(t_start, w, 0)
    /\ n_updates' = Set(n_updates, w, n_updates[w] + 1)
    /\ loc' = Set(loc, w, NoLoc)
    /\ pc' = Set(pc, w, "updated")
    /\ UNCHANGED <<sharedVars, modelVars, average_reward, frame, exc>>

\* ClearBuffers with "self.t_start = self.t" left out
ClearBuffers_KeepStart(w) ==
    /\ w \in workers
    /\ pc[w] = "clear"
    /\ past_action_log_prob' = Set(past_action_log_prob, w, EmptyDict)
    /\ past_action_entropy' = Set(past_action_entropy, w, EmptyDict)
    /\ past_states' = Set(past_states, w, EmptyDict)
    /\ past_rewards' = Set(past_rewards, w, EmptyDict)
    /\ past_values' = Set(past_values, w, EmptyDict)
    /\ n_updates' = Set(n_updates, w, n_updates[w] + 1)
    /\ loc' = Set(loc, w, NoLoc)
    /\ pc' = Set(pc, w, "updated")
    /\ UNCHANGED <<sharedVars, modelVars, counterVars, average_reward,
                   frame, exc>>

\* ClearBuffers with "self.past_values = {}" left out
ClearBuffers_KeepValues(w) ==
    /\ w \in workers
    /\ pc[w] = "clear"
    /\ past_action_log_prob' = Set(past_action_log_prob, w, EmptyDict)
    /\ past_action_entropy' = Set(past_action_entropy, w, EmptyDict)
    /\ past_states' = Set(past_states, w, EmptyDict)
    /\ past_rewards' = Set(past_rewards, w, EmptyDict)
    /\ t_start' = Set(t_start, w, t[w])
    /\ n_updates' = Set(n_updates, w, n_updates[w] + 1)
    /\ loc' = Set(loc, w, NoLoc)
    /\ pc' = Set(pc, w, "updated")
    /\ UNCHANGED <<sharedVars, modelVars, t, past_values, average_reward,
                   frame, exc>>

\* ClearBuffers with "self.past_rewards = {}" left out
ClearBuffers_KeepRewards(w) ==
    /\ w \in workers
    /\ pc[w] = "clear"
    /\ past_action_log_prob' = Set(past_action_log_prob, w, EmptyDict)
    /\ past_action_entropy' = Set(past_action_entropy, w, EmptyDict)
    /\ past_states' = Set(past_states, w, EmptyDict)
    /\ past_values' = Set(past_values, w, EmptyDict)
    /\ t_start' = Set(t_start, w, t[w])
    /\ n_updates' = Set(n_updates, w, n_updates[w] + 1)
    /\ loc' = Set(loc, w, NoLoc)
    /\ pc' = Set(pc, w, "updated")
    /\ UNCHANGED <<sharedVars, modelVars, t, past_rewards, average_reward,
                   frame, exc>>

\* lines 214-220: empty the five dictionaries, then t_start = t; update()
\* returns and its locals are gone
ClearBuffers(w) ==
    /\ w \in workers
    /\ pc[w] = "clear"
    /\ past_action_log_prob' = Set(past_action_log_prob, w, EmptyDict)
    /\ past_action_entropy' = Set(past_action_entropy, w, EmptyDict)
    /\ past_states' = Set(past_states, w, EmptyDict)
    /\ past_rewards' = Set(past_rewards, w, EmptyDict)
    /\ past_values' = Set(past_values, w, EmptyDict)
    /\ t_start' = Set(t_start, w, t[w])
    /\ n_updates' = Set(n_updates, w, n_updates[w] + 1)
    /\ loc' = Set(loc, w, NoLoc)
    /\ pc' = Set(pc, w, "updated")
    /\ UNCHANGED <<sharedVars, modelVars, t, average_reward, frame, exc>>

Next ==
    \/ \E w \in ProcessIdx, state \in Observations, reward \in Rewards :
           ActAndTrainBegin(w, state, reward)
    \/ \E w \in ProcessIdx : ActAndTrainRecord(w)
    \/ \E w \in ProcessIdx, obs \in Observations : Act(w, obs)
    \/ \E w \in ProcessIdx, state \in Observations, reward \in Rewards,
          done \in BOOLEAN :
           StopEpisodeAndTrainBegin(w, state, reward, done)
    \/ \E w \in ProcessIdx : StopEpisodeAndTrainEnd(w)
    \/ \E w \in ProcessIdx : StopEpisode(w)
    \/ \E w \in ProcessIdx : UpdateCompute(w)
    \/ \E w \in ProcessIdx : SharedZerograds(w)
    \/ \E w \in ProcessIdx : CopyGrad(w)
    \/ \E w \in ProcessIdx : OptimizerUpdate(w)
    \/ \E w \in ProcessIdx : SyncParameters(w)
    \/ \E w \in ProcessIdx : ClearBuffers(w)

Spec == Init /\ [][Next]_vars

\* ------------------------------------------ one agent with save and load
\* the calls are given one observation and one reward: what save and load
\* do does not depend on them
PersistObservations == {2}
PersistRewards == {I(5)}

NextPersist ==
    \/ \E w \in ProcessIdx, state \in PersistObservations,
          reward \in PersistRewards :
           ActAndTrainBegin(w, state, reward)
    \/ \E w \in ProcessIdx : ActAndTrainRecord(w)
    \/ \E w \in ProcessIdx, obs \in PersistObservations : Act(w, obs)
    \/ \E w \in ProcessIdx, state \in PersistObservations,
          reward \in PersistRewards, done \in BOOLEAN :
           StopEpisodeAndTrainBegin(w, state, reward, done)
    \/ \E w \in ProcessIdx : StopEpisodeAndTrainEnd(w)
    \/ \E w \in ProcessIdx : StopEpisode(w)
    \/ \E w \in ProcessIdx : UpdateCompute(w)
    \/ \E w \in ProcessIdx : SharedZerograds(w)
    \/ \E w \in ProcessIdx : CopyGrad(w)
    \/ \E w \in ProcessIdx : OptimizerUpdate(w)
    \/ \E w \in ProcessIdx : SyncParameters(w)
    \/ \E w \in ProcessIdx : ClearBuffers(w)
    \/ \E w \in ProcessIdx : SyncParametersCall(w)
    \/ \E w \in ProcessIdx : Save(w)
    \/ \E w \in ProcessIdx : Load(w)

SpecPersist == Init /\ [][NextPersist]_vars

\* --------------------------------- two agents sharing one model, no lock
\* the agents of one training run are built with the same arguments
AsyncObservations == {2}
AsyncRewards == {I(5)}

InitAsync == InitAgents(ProcessIdx) /\ conf.keep_loss_scale_same

\* each agent is driven by its own process; a step of one agent can come
\* between any two steps of update() in the other.  Agent 1 is given one
\* step less than agent 0.
NextAsync ==
    \/ \E w \in ProcessIdx, state \in AsyncObservations,
          reward \in AsyncRewards :
           t[w] < MaxT - w /\ ActAndTrainBegin(w, state, reward)
    \/ \E w \in ProcessIdx : ActAndTrainRecord(w)
    \/ \E w \in ProcessIdx, state \in AsyncObservations,
          reward \in AsyncRewards, done \in {TRUE} :
           StopEpisodeAndTrainBegin(w, state, reward, done)
    \/ \E w \in ProcessIdx : StopEpisodeAndTrainEnd(w)
    \/ \E w \in ProcessIdx : UpdateCompute(w)
    \/ \E w \in ProcessIdx : SharedZerograds(w)
    \/ \E w \in ProcessIdx : CopyGrad(w)
    \/ \E w \in ProcessIdx : OptimizerUpdate(w)
    \/ \E w \in ProcessIdx : SyncParameters(w)
    \/ \E w \in ProcessIdx : ClearBuffers(w)

SpecAsync == InitAsync /\ [][NextAsync]_vars

\* ================================================================ claims
\* update() has built its loss and has not yet returned: loc[w] is live
InUpdate(w) ==
    pc[w] \in {"shared_zerograds", "copy_grad", "optimizer", "sync", "clear"}

BuffersEmpty(w) ==
    /\ past_states[w] = EmptyDict
    /\ past_values[w] = EmptyDict
    /\ past_action_log_prob[w] = EmptyDict
    /\ past_action_entropy[w] = EmptyDict
    /\ past_rewards[w] = EmptyDict

\* C1: at the moment an update() call completes (control is back in
\* act_and_train or stop_episode_and_train, which has not run another
\* statement yet), t_start = t and the five trajectory dictionaries are empty.
C1_WindowInvariant ==
    \A w \in workers :
        pc[w] = "updated" => t_start[w] = t[w] /\ BuffersEmpty(w)

\* an update triggered by the horizon inside act_and_train has just
\* completed
C1_Witness ==
    \E w \in workers :
        /\ pc[w] = "updated"
        /\ frame[w].op = "act_and_train"
        /\ t[w] = t_max

\* C2: no sequence of public calls makes the assertion "t_start < t" of
\* update() fail.
C2_AssertionNeverFails ==
    \A w \in workers : exc[w] # "AssertionError"

\* the indices of the window, last step first
Descending(l, first, last) ==
    /\ Len(l.order) = last - first + 1
    /\ \A p \in 1..Len(l.order) : l.order[p] = last + 1 - p

\* the length of the window of agent w
WindowLength(w) == t[w] - t_start[w]

\* rewards[i] * gamma^e + rewards[i+1] * gamma^(e+1) + ... up to index last
RECURSIVE DiscountedRewards(_, _, _, _)
DiscountedRewards(rewards, i, last, e) ==
    IF i > last THEN Zero
    ELSE RAdd(RMul(RPow(gamma, e), rewards[i]),
              DiscountedRewards(rewards, i + 1, last, e + 1))

\* the closed form of the return of step t_start + k, the reward of step
\* t_start + k itself discounted by gamma^e
ClosedForm(w, k, e) ==
    RAdd(DiscountedRewards(past_rewards[w], t_start[w] + k, t[w] - 1, e),
         RMul(RPow(gamma, WindowLength(w) - k), loc[w].R0))

\* C3 as claimed: without the average-reward mode, the return update()
\* computes for step t_start + k is
\* sum_{j=k}^{n-1} gamma^(j-k+1) * r_j + gamma^(n-k) * R0.
C3_ClaimedClosedForm ==
    \A w \in workers :
        (InUpdate(w) /\ ~use_average_reward) =>
            \A k \in 0..(WindowLength(w) - 1) :
                loc[w].R[t_start[w] + k] = ClosedForm(w, k, 1)

\* C3 as amended: without the average-reward mode, the return update()
\* computes for step t_start + k is
\* sum_{j=k}^{n-1} gamma^(j-k) * r_j + gamma^(n-k) * R0: the reward of a step
\* enters its own return undiscounted.
C3_ReturnClosedForm ==
    \A w \in workers :
        (InUpdate(w) /\ ~use_average_reward) =>
            \A k \in 0..(WindowLength(w) - 1) :
                /\ t_start[w] + k \in DOMAIN loc[w].R
                /\ loc[w].R[t_start[w] + k] = ClosedForm(w, k, 0)

\* an update over a window of two steps with a bootstrap that is not zero
C3_Witness ==
    \E w \in workers :
        /\ InUpdate(w) /\ ~use_average_reward
        /\ WindowLength(w) = 2
        /\ loc[w].R0 # Zero
        /\ loc[w].R[t_start[w]] # loc[w].R[t_start[w] + 1]

\* C4: act_and_train calls update() exactly when the window length is t_max
\* on entry, so the first t_max calls on an empty window make none; the
\* update bootstraps from the value of the observation of this call, as a
\* non-terminal state; it returns before the entry of step t is recorded,
\* and that entry is the first of the next window.  t_max calls of
\* act_and_train followed by a terminal stop_episode_and_train make exactly
\* one update, the one of the stop.
C4_TriggerStep(w) ==
    \* the step that enters act_and_train
    /\ (pc[w] = "idle" /\ pc'[w] # "idle" /\ frame'[w].op = "act_and_train") =>
          /\ (pc'[w] = "update") <=> (WindowLength(w) = t_max)
          /\ (pc'[w] = "record") <=> (WindowLength(w) # t_max)
          /\ WindowLength(w) <= t_max
    \* the step that computes the bootstrap
    /\ (pc[w] = "update" /\ frame[w].op = "act_and_train") =>
          /\ pc'[w] = "shared_zerograds"
          /\ loc'[w].bootstrap = Batch(frame[w].state)
          /\ loc'[w].R0 = VOut(model_param[w], model_state[w],
                               Batch(frame[w].state)).data
          /\ Descending(loc'[w], t[w] - t_max, t[w] - 1)
    \* the step that records the entry after the update has returned
    /\ (pc[w] = "updated" /\ frame[w].op = "act_and_train") =>
          /\ t[w] \notin DOMAIN past_values[w]
          /\ DOMAIN past_values'[w] = {t[w]}
          /\ DOMAIN past_states'[w] = {t[w]}
          /\ t_start'[w] = t[w] /\ t'[w] = t[w] + 1
    \* the update of a terminal stop after t_max calls on a fresh agent
    /\ (/\ pc[w] = "clear" /\ t_start[w] = 0 /\ t[w] = t_max
        /\ frame[w].op = "stop_episode_and_train" /\ frame[w].done) =>
          /\ n_updates[w] = 0 /\ n_updates'[w] = 1
          /\ loc[w].bootstrap = None

C4_HorizonTrigger == [][\A w \in workers : C4_TriggerStep(w)]_vars

\* the horizon has triggered an update inside act_and_train, and the
\* entry of the call was recorded after it
C4_Witness ==
    \E w \in workers :
        /\ pc[w] = "idle" /\ n_updates[w] = 1
        /\ t[w] = t_max + 1 /\ t_start[w] = t_max
        /\ DOMAIN past_values[w] = {t_max}

\* C5: t_start <= t always; t only changes when act_and_train records its
\* entry, by exactly +1, and every act_and_train call that returns does so;
\* t_start only changes at the end of update(), to the value of t.
C5_CounterStep(w) ==
    /\ t_start[w] <= t[w]
    /\ t_start'[w] <= t'[w]
    /\ t'[w] # t[w] =>
          /\ t'[w] = t[w] + 1
          /\ frame[w].op = "act_and_train"
          /\ pc[w] \in {"record", "updated"} /\ pc'[w] = "idle"
    /\ (frame[w].op = "act_and_train" /\ pc'[w] = "idle" /\ exc'[w] = "none") =>
          t'[w] = t[w] + 1
    /\ t_start'[w] # t_start[w] =>
          /\ pc[w] = "clear" /\ pc'[w] = "updated"
          /\ t_start'[w] = t[w]

C5_StepCounters == [][\A w \in workers : C5_CounterStep(w)]_vars

\* a second window has been consumed: t_start has moved twice
C5_Witness ==
    \E w \in workers :
        n_updates[w] = 2 /\ t_start[w] = 2 /\ t[w] = 2

\* C6: a stop_episode_and_train call on an empty window, which aborts on
\* the assertion of update(), leaves the trajectory dictionaries, t, t_start
\* and the average-reward baseline as they were before the call.
C6_AbortStep(w) ==
    /\ (pc[w] = "idle" /\ pc'[w] = "update" /\ t_start[w] = t[w]) =>
          UNCHANGED <<bufferVars, counterVars, average_reward>>
    /\ (pc[w] = "update" /\ exc'[w] = "AssertionError") =>
          UNCHANGED <<bufferVars, counterVars, average_reward>>

C6_ErrorAtomicity == [][\A w \in workers : C6_AbortStep(w)]_vars

\* advantage[i+1] + ... + advantage[last]
RECURSIVE SumAbove(_, _, _)
SumAbove(advantage, i, last) ==
    IF i >= last THEN Zero
    ELSE RAdd(advantage[i + 1], SumAbove(advantage, i + 1, last))

\* C7: in average-reward mode update() walks the window from t-1 down to
\* t_start; the baseline it subtracts at step i is the baseline on entry
\* (what earlier windows left: nothing else changes it) plus
\* tau * advantage of every step j > i of this window, and not of step i.
C7_BaselineStep(w) ==
    /\ pc[w] # "update" => average_reward'[w] = average_reward[w]
    /\ (pc[w] = "update" /\ pc'[w] = "shared_zerograds"
        /\ use_average_reward) =>
          LET l == loc'[w]
              first == t_start[w]
              last == t[w] - 1
          IN  /\ Descending(l, first, last)
              /\ l.baseline0 = average_reward[w]
              /\ \A i \in first..last :
                    /\ l.baseline[i] =
                          RAdd(l.baseline0,
                               RMul(average_reward_tau,
                                    SumAbove(l.advantage, i, last)))
                    /\ l.R[i] =
                          RSub(RAdd(RMul(gamma, IF i = last THEN l.R0
                                                ELSE l.R[i + 1]),
                                    past_rewards[w][i]),
                               l.baseline[i])
                    /\ l.advantage[i] = RSub(l.R[i], past_values[w][i].data)
              /\ average_reward'[w] =
                    RAdd(l.baseline0,
                         RMul(average_reward_tau,
                              SumAbove(l.advantage, first - 1, last)))

C7_BaselineOrdering == [][\A w \in workers : C7_BaselineStep(w)]_vars

\* a window of two steps in average-reward mode whose two steps were
\* given different baselines
C7_Witness ==
    \E w \in workers :
        /\ InUpdate(w) /\ use_average_reward
        /\ WindowLength(w) = 2
        /\ loc[w].baseline[t_start[w]] # loc[w].baseline[t_start[w] + 1]
        /\ loc[w].baseline[t_start[w]] # average_reward[w]

\* C8: the coefficients scale the accumulated losses first; then, with only
\* keep_loss_scale_same set and a window shorter than t_max, both losses
\* are multiplied by t_max / n; with only normalize_grad_by_t_max set both
\* are divided by n; with only keep_loss_scale_same set and n = t_max they
\* are left as they are.
C8_LossScaling ==
    \A w \in workers :
        InUpdate(w) =>
            LET l == loc[w]
                n == WindowLength(w)
                keepOnly == keep_loss_scale_same /\ ~normalize_grad_by_t_max
                normOnly == normalize_grad_by_t_max /\ ~keep_loss_scale_same
            IN  /\ l.pi_loss_scaled = VScale(l.pi_loss_acc, pi_loss_coef)
                /\ l.v_loss_scaled = VScale(l.v_loss_acc, v_loss_coef)
                /\ (keepOnly /\ n < t_max) =>
                      /\ l.pi_loss = VScale(l.pi_loss_scaled, Q(t_max, n))
                      /\ l.v_loss = VScale(l.v_loss_scaled, Q(t_max, n))
                /\ (keepOnly /\ n = t_max) =>
                      /\ l.pi_loss = l.pi_loss_scaled
                      /\ l.v_loss = l.v_loss_scaled
                /\ normOnly =>
                      /\ l.pi_loss = VScale(l.pi_loss_scaled, Q(1, n))
                      /\ l.v_loss = VScale(l.v_loss_scaled, Q(1, n))

\* a window cut short by stop_episode_and_train under keep_loss_scale_same,
\* with losses that are not zero and a policy coefficient that is not 1
C8_Witness ==
    \E w \in workers :
        /\ InUpdate(w) /\ keep_loss_scale_same /\ ~normalize_grad_by_t_max
        /\ WindowLength(w) < t_max
        /\ pi_loss_coef # One
        /\ loc[w].pi_loss_acc.data # Zero /\ loc[w].v_loss_acc.data # Zero

\* C9: when optimizer.update() is called, the gradient of the shared model
\* is the gradient the worker's model has just computed for this window,
\* with nothing left over from earlier updates in either of them.
C9_GradientTransfer ==
    \A w \in workers :
        pc[w] = "optimizer" =>
            /\ model_grad[w] = loc[w].total_loss.grad
            /\ shared_grad = model_grad[w]

\* the optimizer is about to run for a second window whose gradient
\* differs from the one the first window left in the shared model
C9_Witness ==
    \E w \in workers :
        /\ pc[w] = "optimizer" /\ n_updates[w] = 1
        /\ shared_grad # Zero

\* C10: stop_episode_and_train stores the final reward for step t-1 before
\* update() runs; update() then uses R0 = 0 without evaluating the model
\* when done, and the model's value of the given observation otherwise;
\* it walks the whole window [t_start, t); the recurrent state is reset
\* only once update() has returned.
C10_StopStep(w) ==
    /\ (pc[w] = "idle" /\ pc'[w] = "update"
        /\ frame'[w].op = "stop_episode_and_train") =>
          /\ t[w] - 1 \in DOMAIN past_rewards'[w]
          /\ past_rewards'[w][t[w] - 1] =
                (IF clip_reward THEN Clip(frame'[w].reward)
                 ELSE frame'[w].reward)
    /\ (pc[w] = "update" /\ pc'[w] = "shared_zerograds"
        /\ frame[w].op = "stop_episode_and_train") =>
          LET l == loc'[w]
          IN  /\ frame[w].done =>
                    l.R0 = Zero /\ l.bootstrap = None
              /\ ~frame[w].done =>
                    /\ l.bootstrap = Batch(frame[w].state)
                    /\ l.R0 = VOut(model_param[w], model_state[w],
                                   Batch(frame[w].state)).data
              /\ Descending(l, t_start[w], t[w] - 1)
              /\ DOMAIN l.R = t_start[w]..(t[w] - 1)
    /\ (frame[w].op = "stop_episode_and_train"
        /\ model_state'[w] # model_state[w]) =>
          pc[w] = "updated"
    /\ (frame[w].op = "stop_episode_and_train" /\ pc[w] = "updated"
        /\ recurrent) =>
          model_state'[w] = 0

C10_StopBootstrap == [][\A w \in workers : C10_StopStep(w)]_vars

\* a recurrent model whose hidden state is not the reset one bootstraps a
\* stop that is not terminal
C10_Witness ==
    \E w \in workers :
        /\ pc[w] = "shared_zerograds" /\ recurrent
        /\ frame[w].op = "stop_episode_and_train" /\ ~frame[w].done
        /\ model_state[w] # 0
        /\ loc[w].R0 # Zero

\* C11: act(observation) and stop_episode() (the calls that start and end
\* with the agent idle) never start an update and leave t, t_start, the five
\* trajectory dictionaries, the average-reward baseline and the shared
\* model's parameters and gradients as they were, so a pending window is
\* still pending with the same entries.
C11_InferenceStep(w) ==
    pc[w] = "idle" /\ pc'[w] = "idle" =>
        /\ t'[w] = t[w]
        /\ t_start'[w] = t_start[w]
        /\ past_states'[w] = past_states[w]
        /\ past_values'[w] = past_values[w]
        /\ past_action_log_prob'[w] = past_action_log_prob[w]
        /\ past_action_entropy'[w] = past_action_entropy[w]
        /\ past_rewards'[w] = past_rewards[w]
        /\ average_reward'[w] = average_reward[w]
        /\ shared_param' = shared_param
        /\ shared_grad' = shared_grad
        /\ model_param'[w] = model_param[w]
        /\ model_grad'[w] = model_grad[w]
        /\ n_updates'[w] = n_updates[w]
        /\ loc'[w] = loc[w]

C11_InferenceFrame == [][\A w \in workers : C11_InferenceStep(w)]_vars

\* stop_episode() has reset the hidden state of a recurrent model while a
\* one-step window recorded by act_and_train is still pending
C11_Witness ==
    \E w \in workers :
        /\ recurrent
        /\ pc[w] = "idle"
        /\ model_state[w] = 0
        /\ t_start[w] = 0 /\ t[w] = 1
        /\ DOMAIN past_values[w] = {0}
        /\ n_updates[w] = 0

\* C12: the reward act_and_train and stop_episode_and_train store under
\* key t - 1 is, with clip_reward, the input reward clamped to [-1, 1]
\* (-5 gives -1, 1/2 stays 1/2, 5 gives 1) and, without clip_reward, the
\* input reward itself.
C12_StoreStep(w) ==
    pc[w] = "idle" /\ pc'[w] \in {"record", "update"} =>
        LET reward == frame'[w].reward
            stored == past_rewards'[w][t[w] - 1]
        IN  /\ (t[w] - 1) \in DOMAIN past_rewards'[w]
            /\ ~clip_reward => stored = reward
            /\ clip_reward /\ RLt(reward, I(-1)) => stored = I(-1)
            /\ clip_reward /\ RLt(I(1), reward) => stored = I(1)
            /\ clip_reward /\ ~RLt(reward, I(-1)) /\ ~RLt(I(1), reward) =>
                   stored = reward
            /\ clip_reward /\ reward = I(-5) => stored = I(-1)
            /\ clip_reward /\ reward = Q(1, 2) => stored = Q(1, 2)
            /\ clip_reward /\ reward = I(5) => stored = I(1)

C12_RewardClipping == [][\A w \in workers : C12_StoreStep(w)]_vars

\* with clipping on, the rewards -5, 1/2 and 5 given to three successive
\* calls are held as -1, 1/2 and 1
C12_Witness ==
    \E w \in workers :
        /\ clip_reward
        /\ pc[w] = "update"
        /\ frame[w].reward = I(5)
        /\ t[w] = 2
        /\ past_rewards[w] = Put(Put(Put(EmptyDict, -1, I(-1)), 0, Q(1, 2)),
                                 1, I(1))

\* C13 as claimed: whenever no public call is in progress, the window
\* length satisfies 0 <= t - t_start < t_max, so a window of length exactly
\* t_max is never pending when a public call returns.
C13_ClaimedStrictBound ==
    \A w \in workers :
        pc[w] = "idle" => 0 <= WindowLength(w) /\ WindowLength(w) < t_max

\* C13: whenever no public call is in progress, 0 <= t - t_start <= t_max;
\* act_and_train records a new step only onto a window shorter than t_max,
\* so the window reaches length t_max when act_and_train returns and stays
\* pending until the next act_and_train or stop_episode_and_train call runs
\* the update.
C13_WindowBound ==
    \A w \in workers :
        /\ pc[w] = "idle" =>
               0 <= WindowLength(w) /\ WindowLength(w) <= t_max
        /\ pc[w] = "record" => WindowLength(w) < t_max
        /\ pc[w] = "updated" => WindowLength(w) = 0

\* act_and_train has returned and left a window of length exactly t_max
\* pending: two recorded steps, no update so far
C13_Witness ==
    \E w \in workers :
        /\ pc[w] = "idle"
        /\ t_max = 2
        /\ WindowLength(w) = t_max
        /\ DOMAIN past_values[w] = {0, 1}
        /\ n_updates[w] = 0

\* the keys of dictionary d lie in lo .. hi - 1
KeysWithin(d, lo, hi) == \A i \in DOMAIN d : lo <= i /\ i < hi

\* C14 as claimed: in every reachable state every key of the five
\* trajectory dictionaries is a step index i with t_start <= i < t.
C14_ClaimedKeysInWindow ==
    \A w \in workers :
        /\ KeysWithin(past_states[w], t_start[w], t[w])
        /\ KeysWithin(past_values[w], t_start[w], t[w])
        /\ KeysWithin(past_action_log_prob[w], t_start[w], t[w])
        /\ KeysWithin(past_action_entropy[w], t_start[w], t[w])
        /\ KeysWithin(past_rewards[w], t_start[w], t[w])

\* C14: in every reachable state every key of past_states, past_values,
\* past_action_log_prob and past_action_entropy is a step index i with
\* t_start <= i < t, and every key of past_rewards is an index i with
\* t_start - 1 <= i < t: the reward given to a call is stored under t - 1
\* also when step t - 1 is not in the window.
C14_KeysInWindow ==
    \A w \in workers :
        /\ KeysWithin(past_states[w], t_start[w], t[w])
        /\ KeysWithin(past_values[w], t_start[w], t[w])
        /\ KeysWithin(past_action_log_prob[w], t_start[w], t[w])
        /\ KeysWithin(past_action_entropy[w], t_start[w], t[w])
        /\ KeysWithin(past_rewards[w], t_start[w] - 1, t[w])

\* the first act_and_train after an update has returned: the reward it was
\* given sits under key t_start - 1, below the window it has just opened
C14_Witness ==
    \E w \in workers :
        /\ pc[w] = "idle"
        /\ n_updates[w] = 1
        /\ t_start[w] = 1 /\ t[w] = 2
        /\ DOMAIN past_values[w] = {1}
        /\ DOMAIN past_rewards[w] = {0}

\* the step indices the walk of update() has read
Consumed(l) == {l.order[p] : p \in 1..Len(l.order)}

\* C15: the windows consumed by the successive updates of one agent are
\* disjoint and contiguous.  An update reads exactly the indices
\* t_start .. t - 1; when it completes, t_start moves to t, the end of the
\* window just consumed, and no other step moves t_start; what update()
\* reads from the dictionaries never has an index below t_start, and once
\* the update has completed nothing is left under a consumed index.
C15_WindowStep(w) ==
    /\ pc[w] = "update" /\ pc'[w] = "shared_zerograds" =>
           /\ loc'[w].t_start = t_start[w] /\ loc'[w].t = t[w]
           /\ Consumed(loc'[w]) = t_start[w]..(t[w] - 1)
    /\ pc[w] = "clear" /\ pc'[w] = "updated" =>
           /\ Consumed(loc[w]) = t_start[w]..(t[w] - 1)
           /\ t_start[w] < t_start'[w]
           /\ t_start'[w] = loc[w].t
           /\ \A i \in Consumed(loc[w]) :
                  /\ i < t_start'[w]
                  /\ i \notin DOMAIN past_values'[w]
                  /\ i \notin DOMAIN past_rewards'[w]
                  /\ i \notin DOMAIN past_action_log_prob'[w]
                  /\ i \notin DOMAIN past_action_entropy'[w]
                  /\ i \notin DOMAIN past_states'[w]
    /\ ~(pc[w] = "clear" /\ pc'[w] = "updated") =>
           t_start'[w] = t_start[w]

C15_DisjointWindows == [][\A w \in workers : C15_WindowStep(w)]_vars

\* the second update of an agent is under way and consumes [1, 2), the
\* window that begins where the first one, [0, 1), ended
C15_Witness ==
    \E w \in workers :
        /\ InUpdate(w)
        /\ n_updates[w] = 1
        /\ t_start[w] = 1
        /\ Consumed(loc[w]) = {1}

\* the order in which one update() call passes through its steps
UpdateOrder ==
    <<"update", "shared_zerograds", "copy_grad", "optimizer", "sync",
      "clear", "updated">>

\* C16: one update() call goes through its steps in the order: zero the
\* local gradients and run backward; zero the shared gradients; add the
\* local gradients onto the shared ones; optimizer update of the shared
\* parameters; overwrite the local parameters with the shared ones; and
\* only then empty the dictionaries and set t_start to t.  With no other
\* agent acting, the local parameters equal the shared parameters when
\* update() returns.
C16_OrderStep(w) ==
    /\ pc'[w] # pc[w] /\ pc[w] \in {"shared_zerograds", "copy_grad",
                                      "optimizer", "sync", "clear"} =>
           \E p \in 1..(Len(UpdateOrder) - 1) :
               pc[w] = UpdateOrder[p] /\ pc'[w] = UpdateOrder[p + 1]
    /\ pc[w] = "update" /\ pc'[w] # "idle" => pc'[w] = "shared_zerograds"
    /\ pc'[w] = "shared_zerograds" /\ pc[w] # pc'[w] => pc[w] = "update"
    /\ pc[w] = "update" /\ pc'[w] = "shared_zerograds" =>
           /\ model_grad'[w] = loc'[w].total_loss.grad
           /\ UNCHANGED <<shared_grad, shared_param, model_param>>
    /\ pc[w] = "shared_zerograds" /\ pc'[w] = "copy_grad" =>
           /\ shared_grad' = Zero
           /\ UNCHANGED <<shared_param, model_param, model_grad>>
    /\ pc[w] = "copy_grad" /\ pc'[w] = "optimizer" =>
           /\ shared_grad' = RAdd(shared_grad, model_grad[w])
           /\ UNCHANGED <<shared_param, model_param, model_grad>>
    /\ pc[w] = "optimizer" /\ pc'[w] = "sync" =>
           /\ shared_param' = shared_param - RSign(shared_grad)
           /\ UNCHANGED <<shared_grad, model_param, model_grad>>
    /\ pc[w] = "sync" /\ pc'[w] = "clear" =>
           /\ model_param'[w] = shared_param
           /\ UNCHANGED <<shared_grad, shared_param, model_grad>>
    /\ pc[w] \in {"update", "shared_zerograds", "copy_grad", "optimizer",
                   "sync"} /\ pc'[w] # "idle" =>
           /\ UNCHANGED <<t_start, bufferVars>>
           /\ t_start'[w] < t'[w]
           /\ past_values'[w] # EmptyDict
    /\ pc[w] = "clear" /\ pc'[w] = "updated" =>
           /\ BuffersEmpty(w)'
           /\ t_start'[w] = t[w]
           /\ UNCHANGED <<shared_grad, shared_param, model_param, model_grad>>
    /\ pc'[w] = "updated" => model_param'[w] = shared_param'

C16_UpdateOrder == [][\A w \in workers : C16_OrderStep(w)]_vars

\* update() has returned after an optimizer step that moved the shared
\* parameters, and the local parameters are the new shared ones
C16_Witness ==
    \E w \in workers :
        /\ pc[w] = "updated"
        /\ shared_param # Theta0
        /\ model_param[w] = shared_param

\* C19: whenever update() is entered with t_start < t, every step index
\* of the window has an entry in past_rewards, past_values,
\* past_action_log_prob and past_action_entropy, the reward of step t - 1
\* being the one the entering call was given; the walk never reads a
\* missing key.
C19_BufferComplete ==
    \A w \in workers :
        /\ pc[w] = "update" /\ t_start[w] < t[w] =>
               /\ \A i \in t_start[w]..(t[w] - 1) :
                      /\ i \in DOMAIN past_rewards[w]
                      /\ i \in DOMAIN past_values[w]
                      /\ i \in DOMAIN past_action_log_prob[w]
                      /\ i \in DOMAIN past_action_entropy[w]
               /\ past_rewards[w][t[w] - 1] = ClippedReward(frame[w].reward)
        /\ exc[w] # "KeyError"
        /\ loc[w].error = "none"

\* update() is entered by stop_episode_and_train with a window of two
\* steps, the second of which got its reward from this call
C19_Witness ==
    \E w \in workers :
        /\ pc[w] = "update"
        /\ frame[w].op = "stop_episode_and_train"
        /\ t[w] - t_start[w] = 2
        /\ past_rewards[w][t[w] - 1] = Q(1, 2)
        /\ past_rewards[w][t[w] - 2] = I(5)

\* the number of entries dictionary d holds for steps of the window of w
EntriesInWindow(d, w) == Cardinality(DOMAIN d \cap t_start[w]..(t[w] - 1))

\* C20: under any sequence of public calls, stop_episode() included, the
\* window length never exceeds t_max; no trajectory dictionary holds more
\* than t_max entries for steps of the window, and every update walks over
\* at most t_max steps.
C20_BoundedWindow ==
    \A w \in workers :
        /\ WindowLength(w) <= t_max
        /\ EntriesInWindow(past_states[w], w) <= t_max
        /\ EntriesInWindow(past_values[w], w) <= t_max
        /\ EntriesInWindow(past_rewards[w], w) <= t_max
        /\ EntriesInWindow(past_action_log_prob[w], w) <= t_max
        /\ EntriesInWindow(past_action_entropy[w], w) <= t_max
        /\ InUpdate(w) =>
               Len(loc[w].order) <= t_max /\ Len(loc[w].order) >= 1

\* after one update, act_and_train has filled the window again and
\* stop_episode() has then ended the episode without an update: the hidden
\* state is reset and the full window is still pending
C20_Witness ==
    \E w \in workers :
        /\ recurrent
        /\ pc[w] = "idle"
        /\ n_updates[w] = 1
        /\ WindowLength(w) = t_max
        /\ EntriesInWindow(past_values[w], w) = t_max
        /\ model_state[w] = 0

\* C18 as claimed: the shared model's parameters are changed by the
\* optimizer step of update() only; no other step of any call, save and
\* load included, changes them.
C18_ClaimedOptimizerOnly ==
    [][shared_param' # shared_param =>
           \E w \in workers : pc[w] = "optimizer" /\ pc'[w] = "sync"]_vars

\* C18: the shared model's parameters are changed by the optimizer step
\* of update() and by load(), which copies the parameters it has read from
\* model.npz into the shared model; act, act_and_train and
\* stop_episode_and_train outside the optimizer step, stop_episode,
\* sync_parameters and save leave them as they are.
C18_WriterStep(w) ==
    shared_param' # shared_param =>
        \/ /\ pc[w] = "optimizer" /\ pc'[w] = "sync"
           /\ shared_param' = shared_param - RSign(shared_grad)
        \/ /\ pc[w] = "idle" /\ pc'[w] = "idle"
           /\ disk.model # <<>>
           /\ disk' = disk
           /\ shared_param' = disk.model[1]
           /\ model_param'[w] = shared_param'

C18_SharedWriters == [][\E w \in workers : C18_WriterStep(w)]_vars

\* load() has put back the parameters saved before an update: the shared
\* parameters are the initial ones again although the optimizer has moved
\* them once and no further update has run
C18_Witness ==
    \E w \in workers :
        /\ pc[w] = "idle"
        /\ n_updates[w] = 1
        /\ misreads = {}
        /\ shared_grad # Zero
        /\ disk.model = <<Theta0>>
        /\ shared_param = Theta0
        /\ model_param[w] = Theta0

\* agent o has run shared_model.zerograds() at least once
Started(o) ==
    \/ n_updates[o] > 0
    \/ pc[o] \in {"copy_grad", "optimizer", "sync", "clear", "updated"}

\* the number of optimizer steps the agents have run so far
RECURSIVE OptimizerSteps(_)
OptimizerSteps(ws) ==
    IF ws = {} THEN 0
    ELSE LET w == CHOOSE x \in ws : TRUE
         IN  n_updates[w] + (IF pc[w] \in {"sync", "clear"} THEN 1 ELSE 0)
                 + OptimizerSteps(ws \ {w})

\* C17: with two agents whose update() calls interleave between the steps
\* zero shared gradients, additive copy and optimizer update, an optimizer
\* step can consume a gradient that is not the calling agent's own; this
\* happens only when the other agent has run one of these steps, and the
\* runs in which it happens are reachable (C17_Witness).  While both
\* agents are in their first update, what the optimizer is about to
\* consume is zero, one agent's gradient, or the sum of both.
C17_GradientRace ==
    /\ \A w \in workers :
           pc[w] = "optimizer" /\ (\A x \in workers : n_updates[x] = 0) =>
               \E a \in {Zero, model_grad[w]},
                  b \in {Zero} \cup {model_grad[o] : o \in workers \ {w}} :
                   shared_grad = RAdd(a, b)
    /\ \A w \in workers :
           pc[w] = "optimizer" /\ shared_grad # model_grad[w] =>
               \E o \in workers \ {w} : Started(o)
    /\ \A e \in misreads :
           /\ e.read # e.own
           /\ \E o \in workers \ {e.w} : Started(o)
    /\ Cardinality(misreads) <= OptimizerSteps(workers)

\* two optimizer steps have run so far and neither consumed the gradient
\* of its own agent.  The step of agent z.w in its first update read zero,
\* because the other agent had just zeroed the shared gradients: that
\* gradient was never applied.  Agent z.w has since zeroed the shared
\* gradients again and copied the gradient of its second update, and the
\* step of the other agent read the sum of that gradient and its own.
C17_Witness ==
    \E z \in misreads, s \in misreads :
        /\ z.read = Zero /\ z.own # Zero /\ z.k = 0
        /\ s.w # z.w /\ s.k = 0
        /\ n_updates[z.w] = 1 /\ pc[z.w] = "optimizer"
        /\ n_updates[s.w] = 0 /\ pc[s.w] = "sync"
        /\ model_grad[z.w] # Zero /\ s.own # Zero
        /\ s.read = RAdd(s.own, model_grad[z.w])
        /\ misreads = {z, s}
        /\ OptimizerSteps(workers) = 2

====
